---- MODULE Spec2Model ----
(***************************************************************************)
(* The resume builder of frontend/src/components/ResumeBuilder.tsx and the *)
(* API wrapper resumeService: the four-step form, the local resume         *)
(* document, and the create / improve requests the terminal step issues.   *)
(*                                                                         *)
(* One action is one React event handler, or one continuation of an async  *)
(* handler after an await.  A handler sees the state of the render it was  *)
(* created in (its closure); functional updates setX(prev => ...) see the  *)
(* latest state.  window.alert blocks the page until it is dismissed.      *)
(***************************************************************************)
EXTENDS Integers, Sequences, FiniteSets, TLC

VARIABLES
    currentStep,    \* useState(1): the step position
    resumeData,     \* useState(initialResumeData): the local document
    isImproving,    \* useState(false): the in-flight flag of handleImprove
    frames,         \* live activations of handleImprove / handleSubmit, by call number
    network,        \* requests in flight, by the call that awaits them
    alertOpen,      \* the message of the window.alert now shown, "" when none
    calls,          \* history: one record per handler invocation, in click order
    resumes,        \* the backend: number of rows in its table resumes
    ignoredClicks,  \* history: clicks on the Improve button while it was disabled
    nEdits,         \* history: number of edits made to the document
    lastOp,         \* history: the last state update applied, with its arguments
    tally,          \* history: items added to and removed from each section
    templates,      \* templates page, useState([]): the catalog shown
    loading,        \* templates page, useState(true)
    error,          \* templates page, useState(null): the error message
    fetchPc,        \* templates page: where fetchTemplates stands
    requests,       \* history: calls of getTemplates
    fetched         \* history: what the call of getTemplates yielded

vars == <<currentStep, resumeData, isImproving, frames, network, alertOpen,
          calls, resumes, ignoredClicks, nEdits,
          lastOp, tally, templates, loading, error, fetchPc, requests, fetched>>

(* The state of the templates page and the history of the update functions:
   the handlers of the builder leave them alone. *)
aside == <<lastOp, tally, templates, loading, error, fetchPc, requests, fetched>>

----------------------------------------------------------------------------
(* Bounds of the model *)

(* The user's inputs in one session, navigation apart: edits of the document
   and clicks on the Improve and Create Resume buttons. *)
MaxInputs == 3

(* The identities the backend assigns, in the order it assigns them: the id
   of a row of resumes is DEFAULT gen_random_uuid(), new for every row. *)
Ids == <<"r1", "r2", "r3", "r4", "r5", "r6">>

(* Values typed into the form. *)
Values == {"x"}

----------------------------------------------------------------------------
(* Text of the comma-separated inputs: a sequence of characters. *)

Whitespace == {" "}

RECURSIVE SplitComma(_)
(* String.prototype.split(","): the pieces between the commas, empty pieces kept. *)
SplitComma(s) ==
    IF \A k \in 1..Len(s) : s[k] # ","
    THEN <<s>>
    ELSE LET k == CHOOSE j \in 1..Len(s) :
                      s[j] = "," /\ \A m \in 1..(j - 1) : s[m] # ","
         IN  <<SubSeq(s, 1, k - 1)>> \o SplitComma(SubSeq(s, k + 1, Len(s)))

RECURSIVE TrimStart(_)
TrimStart(s) ==
    IF s # <<>> /\ Head(s) \in Whitespace THEN TrimStart(Tail(s)) ELSE s

RECURSIVE TrimEnd(_)
TrimEnd(s) ==
    IF s # <<>> /\ s[Len(s)] \in Whitespace
    THEN TrimEnd(SubSeq(s, 1, Len(s) - 1))
    ELSE s

(* A variant that trims the start only. *)
TrimStartOnly(s) == TrimStart(s)

(* String.prototype.trim *)
Trim(s) == TrimEnd(TrimStart(s))

RECURSIVE Join(_)
(* list.join(", "): the value the input shows for the stored list. *)
Join(list) ==
    IF list = <<>>
    THEN <<>>
    ELSE IF Len(list) = 1
         THEN Head(list)
         ELSE Head(list) \o <<",", " ">> \o Join(Tail(list))

(* A variant that keeps the empty tokens. *)
TokenizeKeepingEmpty(text) ==
    LET pieces == SplitComma(text)
    IN  [k \in 1..Len(pieces) |-> Trim(pieces[k])]

(* e.target.value.split(",").map(s => s.trim()).filter(s => s) *)
Tokenize(text) ==
    LET pieces  == SplitComma(text)
        trimmed == [k \in 1..Len(pieces) |-> Trim(pieces[k])]
        NonEmpty(t) == t # <<>>
    IN  SelectSeq(trimmed, NonEmpty)

(* The texts typed into the skills / certifications / languages inputs. *)
ListTexts == { <<"A", ",", " ", "B">> }

----------------------------------------------------------------------------
(* The document *)

initialResumeData ==
    [ resume_id      |-> "",
      name           |-> "",
      email          |-> "",
      phone          |-> "",
      linkedin       |-> "",
      github         |-> "",
      website        |-> "",
      summary        |-> "",
      experiences    |-> <<>>,
      education      |-> <<>>,
      skills         |-> <<>>,
      projects       |-> <<>>,
      certifications |-> <<>>,
      languages      |-> <<>> ]

(* steps.length *)
NumSteps == 4

(* { ...a, ...b }: object spread, the fields of b override those of a. *)
Spread(a, b) ==
    [f \in (DOMAIN a) \cup (DOMAIN b) |-> IF f \in DOMAIN b THEN b[f] ELSE a[f]]

(* The inputs wired to handleChange (step 1), by their name attribute. *)
ScalarInputs == {"name", "email", "phone", "linkedin", "summary"}

(* The inputs the session below types into. *)
EditedScalars == {"name", "summary"}
EditedSections == {"projects"}
EditedTokenLists == {"skills"}

(* The sections of handleListChange / addItem / removeItem, with the step
   that renders each and the subfields its inputs edit. *)
Sections == {"experiences", "education", "projects"}

SectionStep(field) ==
    CASE field = "experiences" -> 2
      [] field = "education"   -> 3
      [] field = "projects"    -> 4

Subfields(field) ==
    CASE field = "experiences" -> {"title", "company", "period", "description"}
      [] field = "education"   -> {"degree", "institution", "year"}
      [] field = "projects"    -> {"name", "description"}

(* The tokenized string lists, all on step 4. *)
TokenLists == {"skills", "certifications", "languages"}

(* A variant that gives every section the record of a project. *)
NewItemOfProject(field) == [name |-> "", description |-> ""]

(* The record addItem appends. *)
NewItem(field) ==
    IF field = "experiences"
    THEN [title |-> "", company |-> "", period |-> "", description |-> ""]
    ELSE IF field = "education"
         THEN [degree |-> "", institution |-> "", year |-> ""]
         ELSE [name |-> "", description |-> ""]

(* A variant that drops the last item, whatever the index. *)
FilterOutLast(list, index) == SubSeq(list, 1, Len(list) - 1)

(* arr.filter((_, i) => i !== index), index 0-based *)
FilterOut(list, index) ==
    IF index < Len(list)
    THEN [k \in 1..(Len(list) - 1) |-> IF k <= index THEN list[k] ELSE list[k + 1]]
    ELSE list

----------------------------------------------------------------------------
(* Functions with a changing domain *)

Put(f, k, v) == [x \in (DOMAIN f) \cup {k} |-> IF x = k THEN v ELSE f[x]]
Drop(f, k)   == [x \in (DOMAIN f) \ {k} |-> f[x]]
Empty        == [x \in {} |-> x]

----------------------------------------------------------------------------
(* Initial state: the useState initial values; nothing in flight. *)

BuilderInit ==
    /\ currentStep = 1
    /\ resumeData = initialResumeData
    /\ isImproving = FALSE
    /\ frames = Empty
    /\ network = Empty
    /\ alertOpen = ""
    /\ calls = <<>>
    /\ resumes = 0
    /\ ignoredClicks = 0
    /\ nEdits = 0

(* JavaScript's null. *)
null == "<null>"

(* No update applied yet; nothing added or removed. *)
NoOp == [name |-> "none"]

HistoryInit ==
    /\ lastOp = NoOp
    /\ tally = [f \in Sections |-> [adds |-> 0, removes |-> 0]]

(* The templates page before its effect has run. *)
TemplatesInit ==
    /\ templates = <<>>
    /\ loading = TRUE
    /\ error = null
    /\ fetchPc = "mounted"
    /\ requests = 0
    /\ fetched = NoOp

(* No request made, no alert shown, no update applied; the templates page
   not yet loaded. *)
Quiet ==
    /\ isImproving = FALSE
    /\ frames = Empty
    /\ network = Empty
    /\ alertOpen = ""
    /\ calls = <<>>
    /\ resumes = 0
    /\ ignoredClicks = 0
    /\ nEdits = 0
    /\ HistoryInit
    /\ TemplatesInit

Init == BuilderInit /\ HistoryInit /\ TemplatesInit

(* The page takes events: no window.alert is blocking it. *)
PageReady == alertOpen = ""

(* The session has inputs left. *)
InputLeft == Len(calls) + nEdits + ignoredClicks < MaxInputs

sync == <<isImproving, frames, network, alertOpen, calls, resumes, ignoredClicks>>

----------------------------------------------------------------------------
(* Navigation *)

Max(a, b) == IF a >= b THEN a ELSE b
Min(a, b) == IF a <= b THEN a ELSE b

(* A variant of the updater of the Next button that wraps around. *)
advanceWrapping(prev) == IF prev >= NumSteps THEN 1 ELSE prev + 1

(* prev => Math.min(steps.length, prev + 1), the updater of the Next button. *)
advance(prev) == Min(NumSteps, prev + 1)

(* prev => Math.max(1, prev - 1), the updater of the Previous button. *)
retreat(prev) == Max(1, prev - 1)

(* A 0-based variant of the Previous button. *)
ClickPreviousZeroBased ==
    /\ PageReady
    /\ ~(currentStep = 0)
    /\ currentStep' = Max(0, currentStep - 1)
    /\ UNCHANGED <<resumeData, nEdits, aside>>
    /\ UNCHANGED sync

(* The Previous button: disabled at step 1, else setCurrentStep(max(1, prev - 1)). *)
ClickPrevious ==
    /\ PageReady
    /\ ~(currentStep = 1)
    /\ currentStep' = retreat(currentStep)
    /\ UNCHANGED <<resumeData, nEdits, aside>>
    /\ UNCHANGED sync

(* The Next button: rendered while currentStep < steps.length. *)
ClickNext ==
    /\ PageReady
    /\ currentStep < NumSteps
    /\ currentStep' = advance(currentStep)
    /\ UNCHANGED <<resumeData, nEdits, aside>>
    /\ UNCHANGED sync

----------------------------------------------------------------------------
(* Editing the document *)

Edit(newData) ==
    /\ PageReady
    /\ InputLeft
    /\ resumeData' = newData
    /\ nEdits' = nEdits + 1
    /\ UNCHANGED currentStep
    /\ UNCHANGED sync
    /\ UNCHANGED aside

(* A variant that starts again from the empty document. *)
handleChangeResetting(prev, name, value) == Spread(initialResumeData, name :> value)

(* The updater of handleChange: prev => ({ ...prev, [name]: value }) *)
handleChangeUpdate(prev, name, value) == Spread(prev, name :> value)

handleChange(name, value) ==
    /\ currentStep = 1
    /\ Edit(handleChangeUpdate(resumeData, name, value))

(* A variant that replaces the record by one holding the subfield alone. *)
ListChangeReplacing(list, index, subfield, value) ==
    LET n      == IF Len(list) >= index + 1 THEN Len(list) ELSE index + 1
        old(k) == IF k <= Len(list) THEN list[k] ELSE Empty
    IN  [k \in 1..n |-> IF k = index + 1 THEN (subfield :> value) ELSE old(k)]

(* newList[index] = { ...newList[index], [subfield]: value }, index 0-based;
   an index past the end extends the array, the slots between being empty. *)
ListChange(list, index, subfield, value) ==
    LET n      == Max(Len(list), index + 1)
        old(k) == IF k <= Len(list) THEN list[k] ELSE Empty
    IN  [k \in 1..n |-> IF k = index + 1
                        THEN Spread(old(k), subfield :> value)
                        ELSE old(k)]

(* The updater of handleListChange: it copies prev[field], assigns the slot
   and returns { ...prev, [field]: newList }; no test of index against the
   length. *)
handleListChangeUpdate(prev, index, field, subfield, value) ==
    Spread(prev, field :> ListChange(prev[field], index, subfield, value))

(* The inputs of the rendered items call it with the item's own index. *)
handleListChange(index, field, subfield, value) ==
    /\ currentStep = SectionStep(field)
    /\ index < Len(resumeData[field])
    /\ Edit(handleListChangeUpdate(resumeData, index, field, subfield, value))

(* The updater of addItem: prev => ({ ...prev, [field]: [...prev[field], newItem] }) *)
addItemUpdate(prev, field) ==
    Spread(prev, field :> Append(prev[field], NewItem(field)))

addItem(field) ==
    /\ currentStep = SectionStep(field)
    /\ Edit(addItemUpdate(resumeData, field))

(* The updater of removeItem: prev[field].filter((_, i) => i !== index) *)
removeItemUpdate(prev, field, index) ==
    Spread(prev, field :> FilterOut(prev[field], index))

(* The trash button of the rendered item at index. *)
removeItem(field, index) ==
    /\ currentStep = SectionStep(field)
    /\ index < Len(resumeData[field])
    /\ Edit(removeItemUpdate(resumeData, field, index))

(* The updater of the skills / certifications / languages inputs:
   ({ ...resumeData, [field]: e.target.value.split(",")... }) *)
setTokenListUpdate(prev, field, text) == Spread(prev, field :> Tokenize(text))

(* onChange of the skills / certifications / languages input. *)
setTokenList(field, text) ==
    /\ currentStep = 4
    /\ Edit(setTokenListUpdate(resumeData, field, text))

----------------------------------------------------------------------------
(* resumeService *)

(* createResume(data): POST /resumes/create with data as the body. *)
createResume(data) == [op |-> "create", body |-> data]

(* improveResume(resumeId, options): POST /resumes/improve with the body
   { resume_id: resumeId, ...options }: the fields of options come last. *)
improveResume(resumeId, options) ==
    [op |-> "improve", body |-> Spread([resume_id |-> resumeId], options)]

(* What awaiting createResume yields: the call throws (transport error or
   non-2xx), or returns the response data; resume_id "" stands for a response
   that carries no resume_id. *)
CreateResults ==
    { [threw |-> FALSE, resume_id |-> Ids[resumes + 1]],
      [threw |-> FALSE, resume_id |-> ""],
      [threw |-> TRUE,  resume_id |-> ""] }

(* The backend inserts a row for every create it answers with a resume_id. *)
Backend(res) == resumes' = IF res.resume_id # "" THEN resumes + 1 ELSE resumes

(* The partial documents an improve response may carry as its version. *)
Versions ==
    { [summary |-> "improved", skills |-> << <<"A">> >>] }

(* What awaiting improveResume yields; version Empty stands for a response
   that carries no version. *)
ImproveResults ==
    [threw : {FALSE}, version : Versions \cup {Empty}]
        \cup {[threw |-> TRUE, version |-> Empty]}

----------------------------------------------------------------------------
(* History of the handler invocations *)

NewCall(handler, data) ==
    [ handler        |-> handler,
      startedWith    |-> data.resume_id,  \* the identity the handler's closure sees
      creates        |-> 0,               \* create requests it issued
      improveArgs    |-> <<>>,            \* resumeId argument of each improveResume call
      improveBodyIds |-> <<>>,            \* resume_id of each improve request body
      createdId      |-> "",              \* resume_id its create response carried
      failed         |-> FALSE,           \* its catch block ran
      improved       |-> FALSE,           \* its improve request returned a response
      version        |-> Empty,           \* the version that response carried
      editedInFlight |-> FALSE,           \* the document was edited between its click
                                          \* and the improve response it merged
      alerted        |-> FALSE,           \* it called window.alert
      done           |-> FALSE,           \* it returned
      doneAfter      |-> 0,               \* calls started before it returned
      doneSeq        |-> 0 ]              \* its place in the order of returns

Note(i, updates) == calls' = [calls EXCEPT ![i] = Spread(@, updates)]

(* The handler invocation i returns. *)
Return(i, updates) ==
    Note(i, Spread(updates,
                   [done      |-> TRUE,
                    doneAfter |-> Len(calls),
                    doneSeq   |-> 1 + Cardinality({k \in 1..Len(calls) : calls[k].done})]))

Awaiting(i, op) == i \in DOMAIN network /\ network[i].op = op

----------------------------------------------------------------------------
(* handleImprove *)

(* An Improve button that is never disabled. *)
ImproveNeverDisabled == FALSE

(* The Improve button is rendered on the last step with disabled={isImproving}. *)
ImproveDisabled == isImproving

(* handleImprove up to its first await. *)
handleImprove ==
    LET i        == Len(calls) + 1
        resumeId == resumeData.resume_id
        request  == IF resumeId = ""
                    THEN createResume(resumeData)
                    ELSE improveResume(resumeId, resumeData)
        call     == NewCall("handleImprove", resumeData)
    IN  /\ InputLeft
        /\ isImproving' = TRUE
        /\ frames' = Put(frames, i, [handler    |-> "handleImprove",
                                     resumeData |-> resumeData,
                                     resumeId   |-> resumeId,
                                     startEdits |-> nEdits])
        /\ network' = Put(network, i, request)
        /\ calls' = Append(calls,
                 IF resumeId = ""
                 THEN Spread(call, [creates |-> 1])
                 ELSE Spread(call, [improveArgs    |-> <<resumeId>>,
                                    improveBodyIds |-> <<request.body.resume_id>>]))
        /\ UNCHANGED <<currentStep, resumeData, alertOpen, resumes, ignoredClicks, nEdits, aside>>

(* A click on the Improve button. *)
ClickImprove ==
    /\ PageReady
    /\ currentStep = NumSteps
    /\ IF ImproveDisabled
       THEN /\ InputLeft
            /\ ignoredClicks' = ignoredClicks + 1
            /\ UNCHANGED <<currentStep, resumeData, isImproving, frames, network,
                           alertOpen, calls, resumes, nEdits, aside>>
       ELSE handleImprove

(* finally { setIsImproving(false) }, and handleImprove returns. *)
ImproveFinally(i) ==
    /\ isImproving' = FALSE
    /\ frames' = Drop(frames, i)
    /\ network' = Drop(network, i)

(* A catch block that sends the failed request once more instead of returning. *)
ImproveCatchRetrying(i) ==
    /\ Note(i, IF network[i].op = "create"
               THEN [creates |-> calls[i].creates + 1]
               ELSE [improveArgs    |-> Append(calls[i].improveArgs, frames[i].resumeId),
                     improveBodyIds |-> Append(calls[i].improveBodyIds,
                                               network[i].body.resume_id)])
    /\ UNCHANGED <<currentStep, resumeData, isImproving, frames, network, alertOpen,
                   ignoredClicks, nEdits, aside>>

(* A catch block that merges the error response into the document. *)
ImproveCatchMerging(i) ==
    /\ ImproveFinally(i)
    /\ Return(i, [failed |-> TRUE])
    /\ resumeData' = Spread(resumeData, [status |-> "error"])
    /\ UNCHANGED <<currentStep, alertOpen, ignoredClicks, nEdits, aside>>

(* A catch block that returns without the finally: the flag stays set. *)
ImproveCatchStuck(i) ==
    /\ frames' = Drop(frames, i)
    /\ network' = Drop(network, i)
    /\ Return(i, [failed |-> TRUE])
    /\ UNCHANGED <<currentStep, resumeData, isImproving, alertOpen, ignoredClicks,
                   nEdits, aside>>

(* catch (error) { console.error(...) } finally { ... } *)
ImproveCatch(i) ==
    /\ ImproveFinally(i)
    /\ Return(i, [failed |-> TRUE])
    /\ UNCHANGED <<currentStep, resumeData, alertOpen, ignoredClicks, nEdits, aside>>

(* A variant that sends the document as it is when the create response is
   handled. *)
ImproveCreateReturnedFresh(i, res) ==
    IF res.resume_id # ""
    THEN LET resumeId == res.resume_id
             request  == improveResume(resumeId, resumeData)
         IN  /\ resumeData' = Spread(resumeData, [resume_id |-> resumeId])
             /\ frames' = [frames EXCEPT ![i].resumeId = resumeId]
             /\ network' = Put(network, i, request)
             /\ Note(i, [createdId      |-> resumeId,
                         improveArgs    |-> Append(calls[i].improveArgs, resumeId),
                         improveBodyIds |-> Append(calls[i].improveBodyIds,
                                                   request.body.resume_id)])
             /\ UNCHANGED <<currentStep, isImproving, alertOpen, ignoredClicks, nEdits, aside>>
    ELSE /\ ImproveFinally(i)
         /\ Return(i, Empty)
         /\ UNCHANGED <<currentStep, resumeData, alertOpen, ignoredClicks, nEdits, aside>>

(* createResume returned inside handleImprove. *)
ImproveCreateReturned(i, res) ==
    IF res.resume_id # ""
    THEN LET resumeId == res.resume_id
             request  == improveResume(resumeId, frames[i].resumeData)
         IN  /\ resumeData' = Spread(resumeData, [resume_id |-> resumeId])
             /\ frames' = [frames EXCEPT ![i].resumeId = resumeId]
             /\ network' = Put(network, i, request)
             /\ Note(i, [createdId      |-> resumeId,
                         improveArgs    |-> Append(calls[i].improveArgs, resumeId),
                         improveBodyIds |-> Append(calls[i].improveBodyIds,
                                                   request.body.resume_id)])
             /\ UNCHANGED <<currentStep, isImproving, alertOpen, ignoredClicks, nEdits, aside>>
    ELSE /\ ImproveFinally(i)
         /\ Return(i, Empty)
         /\ UNCHANGED <<currentStep, resumeData, alertOpen, ignoredClicks, nEdits, aside>>

(* A variant that overlays the version on the document of the handler's
   closure, as it was when Improve was clicked. *)
ImproveImproveReturnedStale(i, res) ==
    /\ resumeData' = Spread(frames[i].resumeData, res.version)
    /\ ImproveFinally(i)
    /\ Return(i, [improved       |-> TRUE,
                  version        |-> res.version,
                  editedInFlight |-> nEdits > frames[i].startEdits])
    /\ UNCHANGED <<currentStep, alertOpen, ignoredClicks, nEdits, aside>>

(* improveResume returned inside handleImprove:
   if (improveRes?.version) setResumeData(prev => ({ ...prev, ...improveRes.version })) *)
ImproveImproveReturned(i, res) ==
    /\ resumeData' = Spread(resumeData, res.version)
    /\ ImproveFinally(i)
    /\ Return(i, [improved       |-> TRUE,
                  version        |-> res.version,
                  editedInFlight |-> nEdits > frames[i].startEdits])
    /\ UNCHANGED <<currentStep, alertOpen, ignoredClicks, nEdits, aside>>

(* The await of createResume in handleImprove completes. *)
ImproveCreateDone(i, res) ==
    /\ PageReady
    /\ i \in DOMAIN frames /\ frames[i].handler = "handleImprove"
    /\ Awaiting(i, "create")
    /\ Backend(res)
    /\ IF res.threw THEN ImproveCatch(i) ELSE ImproveCreateReturned(i, res)

(* The await of improveResume in handleImprove completes. *)
ImproveImproveDone(i, res) ==
    /\ PageReady
    /\ i \in DOMAIN frames /\ frames[i].handler = "handleImprove"
    /\ Awaiting(i, "improve")
    /\ UNCHANGED resumes
    /\ IF res.threw THEN ImproveCatch(i) ELSE ImproveImproveReturned(i, res)

----------------------------------------------------------------------------
(* handleSubmit *)

(* A Create Resume button rendered on every step. *)
ClickCreateAnyStep ==
    LET i == Len(calls) + 1
    IN  /\ PageReady
        /\ InputLeft
        /\ frames' = Put(frames, i, [handler    |-> "handleSubmit",
                                     resumeData |-> resumeData,
                                     resumeId   |-> ""])
        /\ network' = Put(network, i, createResume(resumeData))
        /\ calls' = Append(calls,
                           Spread(NewCall("handleSubmit", resumeData), [creates |-> 1]))
        /\ UNCHANGED <<currentStep, resumeData, isImproving, alertOpen,
                       resumes, ignoredClicks, nEdits, aside>>

(* A click on the Create Resume button: handleSubmit up to its await. *)
ClickCreate ==
    LET i == Len(calls) + 1
    IN  /\ PageReady
        /\ currentStep = NumSteps
        /\ InputLeft
        /\ frames' = Put(frames, i, [handler    |-> "handleSubmit",
                                     resumeData |-> resumeData,
                                     resumeId   |-> ""])
        /\ network' = Put(network, i, createResume(resumeData))
        /\ calls' = Append(calls,
                           Spread(NewCall("handleSubmit", resumeData), [creates |-> 1]))
        /\ UNCHANGED <<currentStep, resumeData, isImproving, alertOpen,
                       resumes, ignoredClicks, nEdits, aside>>

SubmitReturn(i) ==
    /\ frames' = Drop(frames, i)
    /\ network' = Drop(network, i)

(* A catch block of handleSubmit that clears the flag of handleImprove. *)
SubmitCatchClearing(i) ==
    /\ SubmitReturn(i)
    /\ alertOpen' = "Failed to create resume. Please try again."
    /\ Return(i, [failed |-> TRUE, alerted |-> TRUE])
    /\ isImproving' = FALSE
    /\ UNCHANGED <<currentStep, resumeData, ignoredClicks, nEdits, aside>>

(* catch (error) { console.error(...); alert("Failed ...") } *)
SubmitCatch(i) ==
    /\ SubmitReturn(i)
    /\ alertOpen' = "Failed to create resume. Please try again."
    /\ Return(i, [failed |-> TRUE, alerted |-> TRUE])
    /\ UNCHANGED <<currentStep, resumeData, isImproving, ignoredClicks, nEdits, aside>>

(* A variant that stores the resume_id of the response without testing it. *)
SubmitReturnedStoring(i, res) ==
    IF res.resume_id # ""
    THEN /\ resumeData' = Spread(resumeData, [resume_id |-> res.resume_id])
         /\ alertOpen' = "Resume created successfully!"
         /\ SubmitReturn(i)
         /\ Return(i, [createdId |-> res.resume_id, alerted |-> TRUE])
         /\ UNCHANGED <<currentStep, isImproving, ignoredClicks, nEdits, aside>>
    ELSE /\ resumeData' = Spread(resumeData, [resume_id |-> "undefined"])
         /\ SubmitReturn(i)
         /\ Return(i, Empty)
         /\ UNCHANGED <<currentStep, isImproving, alertOpen, ignoredClicks, nEdits, aside>>

(* createResume returned inside handleSubmit. *)
SubmitReturned(i, res) ==
    IF res.resume_id # ""
    THEN /\ resumeData' = Spread(resumeData, [resume_id |-> res.resume_id])
         /\ alertOpen' = "Resume created successfully!"
         /\ SubmitReturn(i)
         /\ Return(i, [createdId |-> res.resume_id, alerted |-> TRUE])
         /\ UNCHANGED <<currentStep, isImproving, ignoredClicks, nEdits, aside>>
    ELSE /\ SubmitReturn(i)
         /\ Return(i, Empty)
         /\ UNCHANGED <<currentStep, resumeData, isImproving, alertOpen,
                        ignoredClicks, nEdits, aside>>

(* The await of createResume in handleSubmit completes. *)
SubmitCreateDone(i, res) ==
    /\ PageReady
    /\ i \in DOMAIN frames /\ frames[i].handler = "handleSubmit"
    /\ Awaiting(i, "create")
    /\ Backend(res)
    /\ IF res.threw THEN SubmitCatch(i) ELSE SubmitReturned(i, res)

(* The user dismisses the alert. *)
DismissAlert ==
    /\ alertOpen # ""
    /\ alertOpen' = ""
    /\ UNCHANGED <<currentStep, resumeData, isImproving, frames, network, calls,
                   resumes, ignoredClicks, nEdits, aside>>

----------------------------------------------------------------------------
(* The editing session *)

Next ==
    \/ ClickPrevious
    \/ ClickNext
    \/ \E name \in EditedScalars, value \in Values : handleChange(name, value)
    \/ \E field \in EditedSections : addItem(field)
    \/ \E field \in EditedSections : \E index \in 0..(Len(resumeData[field]) - 1) :
           removeItem(field, index)
    \/ \E field \in EditedSections : \E index \in 0..(Len(resumeData[field]) - 1) :
           \E subfield \in Subfields(field), value \in Values :
               handleListChange(index, field, subfield, value)
    \/ \E field \in EditedTokenLists, text \in ListTexts : setTokenList(field, text)
    \/ ClickImprove
    \/ ClickCreate
    \/ \E i \in DOMAIN frames, res \in CreateResults : ImproveCreateDone(i, res)
    \/ \E i \in DOMAIN frames, res \in ImproveResults : ImproveImproveDone(i, res)
    \/ \E i \in DOMAIN frames, res \in CreateResults : SubmitCreateDone(i, res)
    \/ DismissAlert

Spec == Init /\ [][Next]_vars

(* Every request issued completes, with a response or an error, and its
   handler resumes; an alert that blocks the page is dismissed. *)
RequestsComplete ==
    /\ WF_vars(\E i \in DOMAIN frames, res \in CreateResults : ImproveCreateDone(i, res))
    /\ WF_vars(\E i \in DOMAIN frames, res \in ImproveResults : ImproveImproveDone(i, res))
    /\ WF_vars(\E i \in DOMAIN frames, res \in CreateResults : SubmitCreateDone(i, res))
    /\ WF_vars(DismissAlert)

(* The session on the last step, where the Improve button is: the two
   buttons with their requests and the skills input next to them.  The
   navigation and the other inputs act on the position and the document
   alone. *)
LastStepInit ==
    /\ currentStep = NumSteps
    /\ resumeData = initialResumeData
    /\ Quiet

LiveNext ==
    \/ \E field \in EditedTokenLists, text \in ListTexts : setTokenList(field, text)
    \/ ClickImprove
    \/ ClickCreate
    \/ \E i \in DOMAIN frames, res \in CreateResults : ImproveCreateDone(i, res)
    \/ \E i \in DOMAIN frames, res \in ImproveResults : ImproveImproveDone(i, res)
    \/ \E i \in DOMAIN frames, res \in CreateResults : SubmitCreateDone(i, res)
    \/ DismissAlert

SpecLive == LastStepInit /\ [][LiveNext]_vars /\ RequestsComplete

----------------------------------------------------------------------------
(* The state updates on their own: the updaters of the navigation buttons   *)
(* and of the repeating sections, applied in any order from any step.       *)
(* lastOp records each application with its arguments and the value it was  *)
(* applied to.                                                              *)

(* Updates of the document in one run. *)
MaxOps == 5

(* Values typed into the items, two so that items can be told apart. *)
ItemValues == {"x", "y"}

(* The subfield typed into, one per section. *)
KeySubfield(field) ==
    CASE field = "experiences" -> "title"
      [] field = "education"   -> "degree"
      [] field = "projects"    -> "name"

page == <<templates, loading, error, fetchPc, requests, fetched>>

(* Any step of the form, the document as constructed. *)
OpsInit ==
    /\ currentStep \in 1..NumSteps
    /\ resumeData = initialResumeData
    /\ Quiet

OpsLeft == nEdits < MaxOps

ApplyAdvance ==
    /\ currentStep' = advance(currentStep)
    /\ lastOp' = [name |-> "advance", from |-> currentStep]
    /\ UNCHANGED <<resumeData, nEdits, tally>>
    /\ UNCHANGED sync
    /\ UNCHANGED page

ApplyRetreat ==
    /\ currentStep' = retreat(currentStep)
    /\ lastOp' = [name |-> "retreat", from |-> currentStep]
    /\ UNCHANGED <<resumeData, nEdits, tally>>
    /\ UNCHANGED sync
    /\ UNCHANGED page

(* One update of the document, recorded. *)
Apply(record, newData, newTally) ==
    /\ OpsLeft
    /\ resumeData' = newData
    /\ lastOp' = Spread(record, [doc |-> resumeData])
    /\ tally' = newTally
    /\ nEdits' = nEdits + 1
    /\ UNCHANGED currentStep
    /\ UNCHANGED sync
    /\ UNCHANGED page

ApplyAddItem(field) ==
    Apply([name |-> "addItem", field |-> field, before |-> resumeData[field]],
          addItemUpdate(resumeData, field),
          [tally EXCEPT ![field].adds = @ + 1])

(* Removal of an item that is there: the trash button of a rendered item. *)
ApplyRemoveItem(field, index) ==
    /\ index < Len(resumeData[field])
    /\ Apply([name |-> "removeItem", field |-> field, index |-> index,
              before |-> resumeData[field]],
             removeItemUpdate(resumeData, field, index),
             [tally EXCEPT ![field].removes = @ + 1])

ApplyUpdateItem(index, field, subfield, value) ==
    Apply([name |-> "updateItem", field |-> field, index |-> index,
           subfield |-> subfield, value |-> value, before |-> resumeData[field]],
          handleListChangeUpdate(resumeData, index, field, subfield, value),
          tally)

OpsNext ==
    \/ ApplyAdvance
    \/ ApplyRetreat
    \/ \E field \in Sections : ApplyAddItem(field)
    \/ \E field \in Sections : \E index \in 0..(MaxOps - 1) :
           ApplyRemoveItem(field, index)
    \/ \E field \in Sections : \E index \in 0..(Len(resumeData[field]) - 1) :
           \E value \in ItemValues :
               ApplyUpdateItem(index, field, KeySubfield(field), value)

SpecOps == OpsInit /\ [][OpsNext]_vars

----------------------------------------------------------------------------
(* handleListChange on its own, with any index: of an item that is there,   *)
(* the one just past the end, and one further out.                          *)

UpdateIndices == 0..2

UpdateNext ==
    \/ \E field \in EditedSections : ApplyAddItem(field)
    \/ \E field \in EditedSections : \E index \in UpdateIndices :
           \E value \in ItemValues :
               ApplyUpdateItem(index, field, KeySubfield(field), value)

SpecUpdate == OpsInit /\ [][UpdateNext]_vars

----------------------------------------------------------------------------
(* The comma-separated inputs on their own: the updater applied once to a   *)
(* text, on a document that is empty or already filled.                     *)

(* Length of the texts typed or pasted into the input. *)
MaxTextLen == 4

Chars == {"A", "B", ",", " "}

ExampleText == <<"A", ",", " ", "B", " ", ",", ",", " ", "C">>

Texts == (UNION { [1..n -> Chars] : n \in 0..MaxTextLen }) \cup {ExampleText}

(* A document with step-1 fields and the three lists filled. *)
filledResumeData ==
    Spread(initialResumeData,
           [ name           |-> "x",
             summary        |-> "x",
             skills         |-> << <<"B">>, <<"A">> >>,
             certifications |-> << <<"A">> >>,
             languages      |-> << <<"B">> >> ])

TokInit ==
    /\ currentStep = 4
    /\ resumeData \in {initialResumeData, filledResumeData}
    /\ Quiet

ApplySetTokenList(field, text) ==
    /\ lastOp = NoOp
    /\ Apply([name |-> "setTokenList", field |-> field, text |-> text,
              before |-> resumeData],
             setTokenListUpdate(resumeData, field, text),
             tally)

(* An input event that reports the text the input shows, list.join(", "),
   as it is. *)
ApplyRetokenize(field) ==
    /\ lastOp.name = "setTokenList" /\ lastOp.field = field
    /\ Apply([name |-> "retokenize", field |-> field,
              text |-> Join(resumeData[field]), typed |-> lastOp.text],
             setTokenListUpdate(resumeData, field, Join(resumeData[field])),
             tally)

TokNext ==
    \/ \E field \in TokenLists : \E text \in Texts : ApplySetTokenList(field, text)
    \/ \E field \in TokenLists : ApplyRetokenize(field)

SpecTok == TokInit /\ [][TokNext]_vars

----------------------------------------------------------------------------
(* handleChange on its own: the inputs of step 1, typed into on a document  *)
(* that is empty or was saved with content.                                 *)

(* Edits of the scalar fields in one run. *)
MaxFieldOps == 2

(* What is typed: nothing, a word, text that is no e-mail, phone or URL. *)
FieldValues == {"", "x", "not an address"}

(* A document that was created on the backend, with content. *)
savedResumeData ==
    Spread(filledResumeData,
           [ resume_id |-> Ids[1],
             email     |-> "x",
             projects  |-> << [name |-> "x", description |-> ""] >> ])

FieldInit ==
    /\ currentStep = 1
    /\ resumeData \in {initialResumeData, savedResumeData}
    /\ Quiet

ApplySetField(name, value) ==
    /\ nEdits < MaxFieldOps
    /\ Apply([name |-> "setField", field |-> name, value |-> value,
              step |-> currentStep, improving |-> isImproving],
             handleChangeUpdate(resumeData, name, value),
             tally)

FieldNext == \E name \in ScalarInputs : \E value \in FieldValues : ApplySetField(name, value)

SpecField == FieldInit /\ [][FieldNext]_vars

----------------------------------------------------------------------------
(* The templates page, app/templates/page.tsx.                              *)
(*                                                                          *)
(* getTemplates returns response.data, typed any.  A JavaScript value is a  *)
(* record with its kind: undefined, null, a string, an array of values, or  *)
(* an object with its fields.                                               *)

Undefined  == [kind |-> "undefined"]
JsNull     == [kind |-> "null"]
Str(s)     == [kind |-> "string", text |-> s]
Arr(items) == [kind |-> "array", items |-> items]
Obj(fs)    == [kind |-> "object", fields |-> fs]

(* v.f for a value that is not null or undefined: undefined unless v is an
   object with the field. *)
Get(v, f) ==
    IF v.kind = "object" /\ f \in DOMAIN v.fields THEN v.fields[f] ELSE Undefined

(* v?.f *)
GetOptional(v, f) ==
    IF v.kind \in {"undefined", "null"} THEN Undefined ELSE Get(v, f)

(* Truthiness: undefined, null and "" are falsy, arrays and objects truthy. *)
Truthy(v) ==
    CASE v.kind = "string" -> v.text # ""
      [] v.kind \in {"array", "object"} -> TRUE
      [] OTHER -> FALSE

IsArray(v) == v.kind = "array"

(* String(t) for a string or an object. *)
StringOf(t) == IF t.kind = "string" THEN t.text ELSE "[object Object]"

(* t.name and t.description throw a TypeError when t is null or undefined. *)
Throws(t) == t.kind \in {"undefined", "null"}

(* A variant of the descriptor without the String(t) fallback: the name of
   an element without a name is left empty. *)
DescriptorNoFallback(t, stringsFirst) ==
    IF stringsFirst /\ t.kind = "string"
    THEN [name |-> t.text]
    ELSE LET n == Get(t, "name")
             d == Get(t, "description")
             name == IF Truthy(n) THEN n.text ELSE ""
         IN  IF Truthy(d) THEN [name |-> name, description |-> d.text]
                          ELSE [name |-> name]

(* The descriptor of one element.  stringsFirst: the branch tests
   typeof t === 'string' first and returns { name: t }; otherwise, and for
   every other element, { name: t.name || String(t),
                          description: t.description || undefined }.
   An undefined description is a descriptor without description. *)
Descriptor(t, stringsFirst) ==
    IF stringsFirst /\ t.kind = "string"
    THEN [name |-> t.text]
    ELSE LET n == Get(t, "name")
             d == Get(t, "description")
             name == IF Truthy(n) THEN n.text ELSE StringOf(t)
         IN  IF Truthy(d) THEN [name |-> name, description |-> d.text]
                          ELSE [name |-> name]

TypeErrorMessage == "Cannot read properties of null (reading 'name')"

(* items.map(...): it throws when an element does. *)
MapDescriptors(items, stringsFirst) ==
    IF \E k \in 1..Len(items) : Throws(items[k])
    THEN [threw |-> TRUE, message |-> TypeErrorMessage]
    ELSE [threw |-> FALSE,
          list  |-> [k \in 1..Len(items) |-> Descriptor(items[k], stringsFirst)]]

(* The catalog the catch block sets. *)
FallbackTemplates ==
    << [name |-> "default",      description |-> "Clean and professional"],
       [name |-> "modern",       description |-> "Contemporary design"],
       [name |-> "classic",      description |-> "Traditional format"],
       [name |-> "minimal",      description |-> "Simple and elegant"],
       [name |-> "professional", description |-> "Corporate style"],
       [name |-> "executive",    description |-> "Executive level"],
       [name |-> "tech",         description |-> "Tech industry focused"] >>

(* A variant that gives the fallback catalog for a shape it does not know. *)
NormaliseWithFallback(data) ==
    LET info == GetOptional(data, "template_info")
        tpls == GetOptional(data, "templates")
    IN  IF Truthy(info) /\ IsArray(info)
        THEN MapDescriptors(info.items, FALSE)
        ELSE IF Truthy(tpls) /\ IsArray(tpls)
             THEN MapDescriptors(tpls.items, TRUE)
             ELSE IF IsArray(data)
                  THEN MapDescriptors(data.items, TRUE)
                  ELSE [threw |-> FALSE, list |-> FallbackTemplates]

(* A variant that throws on a shape it does not know. *)
NormaliseThrowing(data) ==
    LET info == GetOptional(data, "template_info")
        tpls == GetOptional(data, "templates")
    IN  IF Truthy(info) /\ IsArray(info)
        THEN MapDescriptors(info.items, FALSE)
        ELSE IF Truthy(tpls) /\ IsArray(tpls)
             THEN MapDescriptors(tpls.items, TRUE)
             ELSE IF IsArray(data)
                  THEN MapDescriptors(data.items, TRUE)
                  ELSE [threw |-> TRUE, message |-> "Unexpected response"]

(* The shape sniffing of fetchTemplates: template_info, else templates, else
   a bare array, else the empty templateList. *)
Normalise(data) ==
    LET info == GetOptional(data, "template_info")
        tpls == GetOptional(data, "templates")
    IN  IF Truthy(info) /\ IsArray(info)
        THEN MapDescriptors(info.items, FALSE)
        ELSE IF Truthy(tpls) /\ IsArray(tpls)
             THEN MapDescriptors(tpls.items, TRUE)
             ELSE IF IsArray(data)
                  THEN MapDescriptors(data.items, TRUE)
                  ELSE [threw |-> FALSE, list |-> <<>>]

(* Elements of a response array. *)
MaxItems == 2

Elements ==
    { Str("a"), Str("b"),
      Obj([name |-> Str("a")]),
      Obj([name |-> Str("b"), description |-> Str("d")]),
      Obj([name |-> Str("a"), description |-> Str("")]),
      Obj([description |-> Str("d")]),
      JsNull }

Arrays == { Arr(items) : items \in UNION { [1..n -> Elements] : n \in 0..MaxItems } }

(* What the backend may answer: the three shapes the page knows, other
   shapes, and mixtures. *)
Responses ==
    { Obj([template_info |-> a]) : a \in Arrays }
    \cup { Obj([templates |-> a]) : a \in Arrays }
    \cup Arrays
    \cup { Undefined, JsNull, Str(""), Str("oops"), Obj(Empty),
           Obj([status |-> Str("ok")]),
           Obj([data |-> Arr(<<Str("a")>>)]),
           Obj([templates |-> Str("a")]),
           Obj([template_info |-> JsNull]),
           Obj([template_info |-> Arr(<<>>), templates |-> Arr(<<Str("a")>>)]),
           Obj([template_info |-> Str("a"), templates |-> Arr(<<Str("a")>>)]) }

(* What the rejected request carries: an axios error with its message. *)
TransportErrors == { [message |-> "Network Error"], [message |-> ""] }

builder == <<currentStep, resumeData, isImproving, frames, network, alertOpen,
             calls, resumes, ignoredClicks, nEdits, lastOp, tally>>

(* useEffect(..., []): fetchTemplates up to its await. *)
FetchStart ==
    /\ fetchPc = "mounted"
    /\ loading' = TRUE
    /\ requests' = requests + 1
    /\ fetchPc' = "awaiting"
    /\ UNCHANGED <<templates, error, fetched>>
    /\ UNCHANGED builder

(* A variant of the catch block that sets the error and no catalog. *)
FetchCatchNoCatalog(message) ==
    /\ error' = IF message # "" THEN message ELSE "Failed to load templates"
    /\ UNCHANGED templates

(* catch (err): setError(err.message || ...); setTemplates(the seven). *)
FetchCatch(message) ==
    /\ error' = IF message # "" THEN message ELSE "Failed to load templates"
    /\ templates' = FallbackTemplates

(* finally: setLoading(false); the function is over, and nothing calls it
   again. *)
FetchFinally ==
    /\ loading' = FALSE
    /\ fetchPc' = "done"
    /\ UNCHANGED requests
    /\ UNCHANGED builder

(* The request returned data: normalisation, then setTemplates and
   setError(null); a TypeError of the normalisation goes to the catch. *)
FetchReturned(data) ==
    /\ fetchPc = "awaiting"
    /\ fetched' = [kind |-> "returned", data |-> data]
    /\ LET result == Normalise(data)
       IN  IF result.threw
           THEN FetchCatch(result.message)
           ELSE /\ templates' = result.list
                /\ error' = null
    /\ FetchFinally

(* The request was rejected. *)
FetchThrew(err) ==
    /\ fetchPc = "awaiting"
    /\ fetched' = [kind |-> "threw", err |-> err]
    /\ FetchCatch(err.message)
    /\ FetchFinally

TemplatesNext ==
    \/ FetchStart
    \/ \E data \in Responses : FetchReturned(data)
    \/ \E err \in TransportErrors : FetchThrew(err)

SpecTemplates == Init /\ [][TemplatesNext]_vars

----------------------------------------------------------------------------
(* Properties of the editing session *)

IsImprove(c) == c.handler = "handleImprove"
IsSubmit(c)  == c.handler = "handleSubmit"
Calls        == 1..Len(calls)

(* The handler invocation i returns in this step. *)
Returns(i) == i \in Calls /\ ~calls[i].done /\ calls'[i].done

(* The catch block of the handler invocation i runs in this step. *)
Fails(i) == i \in Calls /\ ~calls[i].failed /\ calls'[i].failed

(* C1: an Improve invoked on a document with an empty identity issues exactly
   one create request and then, create having returned an identity, exactly
   one improve request, which carries that identity; an Improve invoked on a
   document with an identity issues no create request and exactly one improve
   request. *)
C1_ImproveIssuesCreateThenImprove ==
    \A i \in Calls :
        IsImprove(calls[i]) =>
            IF calls[i].startedWith = ""
            THEN /\ calls[i].creates = 1
                 /\ calls[i].createdId # "" => Len(calls[i].improveBodyIds) = 1
                 /\ \A k \in 1..Len(calls[i].improveBodyIds) :
                        calls[i].improveBodyIds[k] = calls[i].createdId
            ELSE /\ calls[i].creates = 0
                 /\ Len(calls[i].improveBodyIds) = 1
                 /\ calls[i].improveBodyIds[1] = calls[i].startedWith

(* C2: the resume_id of the body of every improve request in flight is the
   identity handleImprove passed to improveResume. *)
C2_ImproveBodyCarriesIdentity ==
    \A i \in DOMAIN network :
        network[i].op = "improve" => network[i].body.resume_id = frames[i].resumeId

(* C3: while isImproving is set, no step issues a request on behalf of a new
   invocation of handleImprove: a click on the Improve button is ignored. *)
C3_NoRequestFromImproveWhileImproving ==
    [][isImproving =>
          /\ \A i \in (DOMAIN network') \ (DOMAIN network) : ~IsImprove(calls'[i])
          /\ \A i \in (DOMAIN frames') \ (DOMAIN frames) : ~IsImprove(calls'[i])]_vars

C3_Witness ==
    /\ isImproving
    /\ ignoredClicks > 0
    /\ \E i \in DOMAIN network : IsImprove(calls[i])

(* C4: once the identity of the document is non-empty, no step changes it. *)
C4_IdentityNeverChanges ==
    [][resumeData.resume_id # "" => resumeData'.resume_id = resumeData.resume_id]_vars

(* C5: every handler invocation whose request failed has reported the failure
   with window.alert. *)
C5_FailureIsAlerted ==
    \A i \in Calls : calls[i].failed => calls[i].alerted

(* C6: the step that handles a failed request leaves the document as it was. *)
C6_FailureLeavesDocument ==
    [][(\E i \in Calls : Fails(i)) => resumeData' = resumeData]_vars

C6_Witness ==
    /\ \E i \in Calls : calls[i].failed /\ IsImprove(calls[i]) /\ calls[i].createdId # ""
    /\ \E i \in Calls : calls[i].failed /\ IsSubmit(calls[i])
    /\ resumeData.resume_id # ""

(* C7: when the create of an Improve started without identity succeeds and its
   improve fails, the step that handles the failure leaves the document with
   the identity create returned and every field as it was, alerts the user, and
   the Improve has issued one create and one improve request. *)
C7_PartialFailureSurfaced ==
    [][\A i \in Calls :
          (Fails(i) /\ IsImprove(calls[i]) /\ calls[i].createdId # "") =>
              /\ resumeData' = resumeData
              /\ calls'[i].alerted
              /\ calls'[i].done
              /\ calls'[i].creates = 1
              /\ Len(calls'[i].improveArgs) = 1]_vars

(* C8: a handler invocation issues at most one create and at most one improve
   request; handleSubmit issues no improve request; a handleImprove whose
   create failed issues no improve request; a failed invocation has returned
   and has no request in flight. *)
C8_NoRetry ==
    \A i \in Calls :
        /\ calls[i].creates <= 1
        /\ Len(calls[i].improveArgs) <= 1
        /\ IsSubmit(calls[i]) => calls[i].creates = 1 /\ calls[i].improveArgs = <<>>
        /\ (IsImprove(calls[i]) /\ calls[i].creates = 1 /\ calls[i].createdId = "")
               => calls[i].improveArgs = <<>>
        /\ calls[i].failed => calls[i].done /\ i \notin DOMAIN network

C8_Witness ==
    /\ \E i \in Calls : IsImprove(calls[i]) /\ calls[i].failed
                           /\ calls[i].creates = 1 /\ calls[i].createdId = ""
    /\ \E i \in Calls : IsImprove(calls[i]) /\ calls[i].failed
                           /\ Len(calls[i].improveArgs) = 1
    /\ \E i \in Calls : IsSubmit(calls[i]) /\ calls[i].failed

(* The Create action that last returned with a resume_id before the
   invocation i started, 0 when none did. *)
LastCreateBefore(i) ==
    LET before == {j \in Calls : /\ IsSubmit(calls[j]) /\ calls[j].createdId # ""
                                 /\ calls[j].done /\ calls[j].doneAfter < i}
    IN  IF before = {} THEN 0
        ELSE CHOOSE j \in before : \A k \in before : calls[k].doneSeq <= calls[j].doneSeq

(* The Improve is the first one started after the invocation j returned. *)
NextImproveAfter(i, j) ==
    /\ IsImprove(calls[i])
    /\ calls[j].doneAfter < i
    /\ \A k \in Calls : (IsImprove(calls[k]) /\ calls[j].doneAfter < k) => i <= k

(* C9: the first Improve started after a Create action returned resume_id r
   issues no create request and issues its improve request with identity r. *)
C9_IdentityRoundTrip ==
    \A i \in Calls :
        LET j == LastCreateBefore(i)
        IN  (j # 0 /\ NextImproveAfter(i, j)) =>
                /\ calls[i].creates = 0
                /\ calls[i].improveArgs = <<calls[j].createdId>>
                /\ calls[i].improveBodyIds = <<calls[j].createdId>>

(* C10: the step position is an integer from 1 to 4. *)
C10_StepInRange == currentStep \in 1..NumSteps

C10_Witness ==
    /\ currentStep = 1
    /\ Len(calls) > 0
    /\ nEdits > 0

----------------------------------------------------------------------------
(* The updaters on their own (SpecOps) *)

(* C11: the updater of the Next button takes position p to p + 1 when p < 4
   and leaves it at 4 when p = 4; the updater of the Previous button takes p
   to p - 1 when p > 1 and leaves it at 1 when p = 1; neither wraps around. *)
C11_AdvanceRetreatClamp ==
    /\ lastOp.name = "advance" =>
           currentStep = IF lastOp.from < 4 THEN lastOp.from + 1 ELSE 4
    /\ lastOp.name = "retreat" =>
           currentStep = IF lastOp.from > 1 THEN lastOp.from - 1 ELSE 1

(* The Next updater applied at the last step. *)
C11_Witness == lastOp.name = "advance" /\ lastOp.from = 4 /\ currentStep = 4

(* C12: after any sequence of addItem and removeItem on a repeating section
   its length is the number of adds minus the number of removes, and the
   items not removed keep their relative order: a removal closes the gap at
   its index, an addition leaves the items before it as they were. *)
C12_LengthAndOrder ==
    /\ \A f \in Sections :
           Len(resumeData[f]) = tally[f].adds - tally[f].removes
    /\ lastOp.name = "removeItem" =>
           LET old == lastOp.before
               new == resumeData[lastOp.field]
           IN  /\ Len(new) = Len(old) - 1
               /\ \A k \in 1..Len(new) :
                      new[k] = IF k <= lastOp.index THEN old[k] ELSE old[k + 1]
    /\ lastOp.name = "addItem" =>
           LET old == lastOp.before
               new == resumeData[lastOp.field]
           IN  /\ Len(new) = Len(old) + 1
               /\ \A k \in 1..Len(old) : new[k] = old[k]

(* The first of three projects removed; the two that stay differ and stay
   in their order. *)
C12_Witness ==
    /\ lastOp.name = "removeItem" /\ lastOp.field = "projects" /\ lastOp.index = 0
    /\ Len(lastOp.before) = 3
    /\ lastOp.before[2] # lastOp.before[3]
    /\ resumeData.projects = <<lastOp.before[2], lastOp.before[3]>>
    /\ tally["projects"] = [adds |-> 3, removes |-> 1]

----------------------------------------------------------------------------
(* handleListChange with any index (SpecUpdate) *)

(* C13: an update of an item with an index out of bounds (index >= the
   length of the collection) is a silent no-op: the collection has the same
   length and the same records afterwards. *)
C13_OutOfBoundsUpdateIsNoOp ==
    (lastOp.name = "updateItem" /\ lastOp.index >= Len(lastOp.before)) =>
        resumeData[lastOp.field] = lastOp.before

----------------------------------------------------------------------------
(* The comma-separated inputs (SpecTok) *)

(* The part of text strictly between positions a and b, without the
   whitespace at its two ends; <<>> when it is all whitespace. *)
TokenBetween(text, a, b) ==
    LET inked == {k \in (a + 1)..(b - 1) : text[k] \notin Whitespace}
    IN  IF inked = {}
        THEN <<>>
        ELSE LET first == CHOOSE k \in inked : \A m \in inked : k <= m
                 last  == CHOOSE k \in inked : \A m \in inked : k >= m
             IN  SubSeq(text, first, last)

RECURSIVE TokensAfter(_, _)
(* The non-empty tokens of text after position a, in their order; a token
   ends at the next comma or at the end of the text. *)
TokensAfter(text, a) ==
    LET stops == {k \in (a + 1)..Len(text) : text[k] = ","} \cup {Len(text) + 1}
        b     == CHOOSE k \in stops : \A m \in stops : k <= m
        token == TokenBetween(text, a, b)
    IN  (IF token = <<>> THEN <<>> ELSE <<token>>)
        \o (IF b > Len(text) THEN <<>> ELSE TokensAfter(text, b))

(* C14: the input of a tokenized list sets the whole list to the tokens of
   the text, split on commas, trimmed, the empty ones dropped, in their
   order; "A, B ,, C" gives exactly A, B, C; no other field changes. *)
C14_TokenListReplaced ==
    lastOp.name = "setTokenList" =>
        /\ resumeData[lastOp.field] = TokensAfter(lastOp.text, 0)
        /\ lastOp.text = ExampleText =>
               resumeData[lastOp.field] = << <<"A">>, <<"B">>, <<"C">> >>
        /\ DOMAIN resumeData = DOMAIN lastOp.before
        /\ \A f \in DOMAIN resumeData \ {lastOp.field} :
               resumeData[f] = lastOp.before[f]

(* The example text typed into the skills input of the filled document. *)
C14_Witness ==
    /\ lastOp.name = "setTokenList" /\ lastOp.field = "skills"
    /\ lastOp.text = ExampleText
    /\ lastOp.before = filledResumeData
    /\ resumeData.skills = << <<"A">>, <<"B">>, <<"C">> >>
    /\ resumeData.languages = << <<"B">> >>

----------------------------------------------------------------------------
(* The templates page (SpecTemplates) *)

(* fetchTemplates is over. *)
Loaded == fetchPc = "done"

(* The request returned data. *)
Returned == Loaded /\ fetched.kind = "returned"

HasArray(data, f) ==
    /\ data.kind = "object"
    /\ f \in DOMAIN data.fields
    /\ data.fields[f].kind = "array"

(* One of { template_info: [...] }, { templates: [...] }, a bare array. *)
Recognised(data) ==
    HasArray(data, "template_info") \/ HasArray(data, "templates") \/ data.kind = "array"

TemplateNames == [k \in 1..Len(templates) |-> templates[k].name]

(* The list shown is the seven-entry catalog, every name non-empty. *)
ShowsFallback ==
    /\ TemplateNames = <<"default", "modern", "classic", "minimal",
                         "professional", "executive", "tech">>
    /\ \A k \in 1..Len(templates) : templates[k].name # ""

(* C15: when the request for the templates throws, the list becomes the
   fixed catalog of exactly seven templates (default, modern, classic,
   minimal, professional, executive, tech), each with a non-empty name, and
   no second request is made. *)
C15_TransportFailureGivesFallback ==
    /\ requests <= 1
    /\ (Loaded /\ fetched.kind = "threw") =>
           /\ Len(templates) = 7
           /\ ShowsFallback
           /\ requests = 1

(* The request failed with a network error. *)
C15_Witness ==
    /\ Loaded /\ fetched.kind = "threw" /\ fetched.err.message = "Network Error"
    /\ Len(templates) = 7
    /\ error = "Network Error"
    /\ ~loading

(* C16, as stated: when the request succeeds but the response has none of
   the three shapes, the list is the seven-entry fallback catalog, each
   entry with a non-empty name. *)
C16_MalformedShapeGivesFallback ==
    (Returned /\ ~Recognised(fetched.data)) =>
        (Len(templates) = 7 /\ ShowsFallback)

(* An array of the response holds null. *)
HoldsNull(data) ==
    \/ data.kind = "array" /\ \E k \in 1..Len(data.items) : data.items[k] = JsNull
    \/ \E f \in {"template_info", "templates"} :
           /\ HasArray(data, f)
           /\ \E k \in 1..Len(data.fields[f].items) : data.fields[f].items[k] = JsNull

(* C16, amended: when the request succeeds but the response has none of the
   three shapes, the list is empty, not the fallback catalog; the fallback
   catalog is shown only when the request threw or the normalisation threw
   on a null element. *)
C16_MalformedShapeGivesEmptyList ==
    /\ (Returned /\ ~Recognised(fetched.data)) => templates = <<>>
    /\ (Loaded /\ Len(templates) = 7 /\ ShowsFallback) =>
           (fetched.kind = "threw" \/ HoldsNull(fetched.data))

(* The backend answered { status: "ok" }. *)
C16_Witness ==
    /\ Returned
    /\ fetched.data = Obj([status |-> Str("ok")])
    /\ templates = <<>>

(* C17: a response of a shape the page does not know gives an empty list;
   the page does not crash or enter an error state. *)
C17_UnrecognisedShapeGivesEmptyList ==
    (Returned /\ ~Recognised(fetched.data)) =>
        /\ templates = <<>>
        /\ error = null
        /\ ~loading

(* The backend answered null. *)
C17_Witness ==
    /\ Returned
    /\ fetched.data = JsNull
    /\ templates = <<>> /\ error = null /\ ~loading

(* The response is one of the three shapes and nothing else. *)
PureShape(data) ==
    \/ data.kind = "array"
    \/ /\ data.kind = "object"
       /\ DOMAIN data.fields \in {{"template_info"}, {"templates"}}
       /\ \A f \in DOMAIN data.fields : data.fields[f].kind = "array"

ShapeItems(data) ==
    IF data.kind = "array"
    THEN data.items
    ELSE LET f == CHOOSE g \in DOMAIN data.fields : TRUE IN data.fields[f].items

(* t is a record with a name. *)
NamedRecord(t) ==
    /\ t.kind = "object"
    /\ "name" \in DOMAIN t.fields
    /\ t.fields.name.kind = "string" /\ t.fields.name.text # ""

(* C18: each of { template_info: [...] }, { templates: [...] } and a bare
   array of strings and records gives a list of { name, description? } of
   the same length and order: a string s gives { name: s }, a record keeps
   its name and its description. *)
C18_NormalisedUniform ==
    (/\ Returned
     /\ PureShape(fetched.data)
     /\ \A k \in 1..Len(ShapeItems(fetched.data)) :
            ShapeItems(fetched.data)[k].kind \in {"string", "object"}) =>
        LET items == ShapeItems(fetched.data)
        IN  /\ Len(templates) = Len(items)
            /\ \A k \in 1..Len(items) :
                   /\ "name" \in DOMAIN templates[k]
                   /\ DOMAIN templates[k] \subseteq {"name", "description"}
                   /\ items[k].kind = "string" => templates[k] = [name |-> items[k].text]
                   /\ NamedRecord(items[k]) =>
                          /\ templates[k].name = items[k].fields.name.text
                          /\ IF /\ "description" \in DOMAIN items[k].fields
                                /\ items[k].fields.description.text # ""
                             THEN /\ "description" \in DOMAIN templates[k]
                                  /\ templates[k].description =
                                         items[k].fields.description.text
                             ELSE "description" \notin DOMAIN templates[k]

(* { template_info: ["a", { name: "b", description: "d" }] } *)
C18_Witness ==
    /\ Returned
    /\ fetched.data = Obj([template_info |->
                              Arr(<<Str("a"),
                                    Obj([name |-> Str("b"), description |-> Str("d")])>>)])
    /\ templates = <<[name |-> "a"], [name |-> "b", description |-> "d"]>>

----------------------------------------------------------------------------
(* The Improve action as a state machine (SpecLive) *)

(* Where the Improve action stands: Creating while its handler awaits
   createResume, Improving while it awaits improveResume, Idle otherwise. *)
ImprovePhase ==
    IF \E i \in DOMAIN frames : frames[i].handler = "handleImprove"
    THEN LET i == CHOOSE j \in DOMAIN frames : frames[j].handler = "handleImprove"
         IN  IF network[i].op = "create" THEN "Creating" ELSE "Improving"
    ELSE "Idle"

(* The phase changes along Idle -> Creating -> Improving -> Idle, Creating
   entered only with an empty identity and skipped otherwise; a failure, or
   a create response without resume_id, leads back to Idle. *)
ImprovePhaseStep ==
    ImprovePhase' # ImprovePhase =>
        \/ /\ ImprovePhase = "Idle" /\ ImprovePhase' = "Creating"
           /\ resumeData.resume_id = ""
        \/ /\ ImprovePhase = "Idle" /\ ImprovePhase' = "Improving"
           /\ resumeData.resume_id # ""
        \/ ImprovePhase = "Creating" /\ ImprovePhase' = "Improving"
        \/ ImprovePhase = "Creating" /\ ImprovePhase' = "Idle"
        \/ ImprovePhase = "Improving" /\ ImprovePhase' = "Idle"

(* C19: if every request issued completes, every Improve action follows
   Idle -> Creating (only when the identity was empty at invocation) ->
   Improving -> Idle, and isImproving is eventually false again on every
   path: failure of create, failure of improve, and a create response
   without resume_id included. *)
C19_ImproveReturnsToIdle ==
    /\ [][ImprovePhaseStep]_vars
    /\ [](isImproving <=> ImprovePhase # "Idle")
    /\ (isImproving ~> ~isImproving)

(* An Improve that created the resume and whose improve request failed has
   returned, and the flag is clear. *)
C19_Witness ==
    /\ ~isImproving
    /\ \E i \in Calls :
           /\ IsImprove(calls[i]) /\ calls[i].done /\ calls[i].failed
           /\ calls[i].creates = 1 /\ Len(calls[i].improveArgs) = 1

----------------------------------------------------------------------------
(* The merge of an improve response (Spec) *)

(* C20: when an improve request succeeds with a version v, the document
   becomes v laid over the document as it is when the response is handled:
   every field of v takes v's value, lists whole; every other field keeps
   its current value, edits made while the request was in flight included;
   edits made in flight to fields of v are overwritten. *)
C20_VersionOverlaysCurrentDocument ==
    [][\A i \in Calls :
          (Returns(i) /\ IsImprove(calls[i]) /\ calls'[i].improved
                      /\ calls'[i].version # Empty) =>
              LET v == calls'[i].version
              IN  /\ DOMAIN resumeData' = DOMAIN resumeData \cup DOMAIN v
                  /\ \A f \in DOMAIN v : resumeData'[f] = v[f]
                  /\ \A f \in DOMAIN resumeData \ DOMAIN v :
                         resumeData'[f] = resumeData[f]]_vars

(* An Improve whose response carried a version has returned; the one edit of
   the session was made while it was in flight, a project added, and the
   project is still there next to the fields of the version. *)
C20_Witness ==
    \E i \in Calls :
        /\ IsImprove(calls[i]) /\ calls[i].done /\ calls[i].improved
        /\ calls[i].version # Empty
        /\ calls[i].editedInFlight /\ nEdits = 1
        /\ Len(resumeData.projects) = 1
        /\ resumeData.summary = calls[i].version.summary
        /\ resumeData.skills = calls[i].version.skills

----------------------------------------------------------------------------
(* The terminal step (Spec) *)

(* C21: a Create or Improve action starts only at step 4; at steps 1 to 3
   the buttons offer navigation only, and at step 4 the Next button is not
   offered.  A request may still be in flight, and its response arrive,
   after the user has gone back to an earlier step. *)
C21_ActionsOnlyOnLastStep ==
    /\ [][Len(calls') > Len(calls) => currentStep = NumSteps]_vars
    /\ [](currentStep = NumSteps => ~ENABLED ClickNext)
    /\ [](currentStep < NumSteps => ~ENABLED ClickImprove /\ ~ENABLED ClickCreate)

(* The user is back on step 1 while the request of an Improve is in flight. *)
C21_Witness ==
    /\ currentStep = 1
    /\ isImproving
    /\ \E i \in DOMAIN network : frames[i].handler = "handleImprove"

----------------------------------------------------------------------------
(* Frame of the list updates (SpecOps) *)

(* The fields of the document other than f are as they were before the
   last update. *)
OthersAsBefore(f) ==
    /\ DOMAIN resumeData = DOMAIN lastOp.doc
    /\ \A g \in DOMAIN resumeData \ {f} : resumeData[g] = lastOp.doc[g]

(* C22: addItem appends exactly one record with the default empty fields of
   its section at the end: the length grows by 1, the earlier records keep
   index and content, the other sections and the scalar fields are
   unchanged. *)
C22_AddItemAppendsDefault ==
    lastOp.name = "addItem" =>
        LET f   == lastOp.field
            old == lastOp.doc[f]
            new == resumeData[f]
        IN  /\ Len(new) = Len(old) + 1
            /\ \A k \in 1..Len(old) : new[k] = old[k]
            /\ f = "experiences" =>
                   new[Len(new)] = [title |-> "", company |-> "", period |-> "",
                                    description |-> ""]
            /\ f = "education" =>
                   new[Len(new)] = [degree |-> "", institution |-> "", year |-> ""]
            /\ f = "projects" => new[Len(new)] = [name |-> "", description |-> ""]
            /\ OthersAsBefore(f)

(* An education record added after one that was filled in, next to an
   experience. *)
C22_Witness ==
    /\ lastOp.name = "addItem" /\ lastOp.field = "education"
    /\ Len(resumeData.education) = 2
    /\ resumeData.education[1].degree = "x"
    /\ resumeData.education[2] = [degree |-> "", institution |-> "", year |-> ""]
    /\ Len(resumeData.experiences) = 1

(* C23: an update of the record at an index within the collection changes
   only the named field of that record: the length, every other record,
   every other field of the record, the other sections and the scalar
   fields are unchanged. *)
C23_UpdateItemChangesOneField ==
    (lastOp.name = "updateItem" /\ lastOp.index < Len(lastOp.doc[lastOp.field])) =>
        LET f   == lastOp.field
            old == lastOp.doc[f]
            new == resumeData[f]
            k   == lastOp.index + 1
        IN  /\ Len(new) = Len(old)
            /\ \A j \in 1..Len(old) : j # k => new[j] = old[j]
            /\ new[k][lastOp.subfield] = lastOp.value
            /\ DOMAIN new[k] = DOMAIN old[k]
            /\ \A s \in DOMAIN old[k] \ {lastOp.subfield} : new[k][s] = old[k][s]
            /\ OthersAsBefore(f)

(* The second of two projects renamed, the first one having a name. *)
C23_Witness ==
    /\ lastOp.name = "updateItem" /\ lastOp.field = "projects" /\ lastOp.index = 1
    /\ Len(resumeData.projects) = 2
    /\ resumeData.projects[1].name = "x"
    /\ resumeData.projects[2] = [name |-> "y", description |-> ""]

----------------------------------------------------------------------------
(* Frame of handleChange (SpecField) *)

(* C24: setting a scalar field assigns exactly the named field, takes any
   string as it is, and leaves every other field (the identity and the list
   sections included), the step position and isImproving unchanged. *)
C24_SetFieldAssignsOneField ==
    lastOp.name = "setField" =>
        /\ resumeData[lastOp.field] = lastOp.value
        /\ DOMAIN resumeData = DOMAIN lastOp.doc
        /\ \A g \in DOMAIN resumeData \ {lastOp.field} : resumeData[g] = lastOp.doc[g]
        /\ currentStep = lastOp.step
        /\ isImproving = lastOp.improving

(* Text that is no e-mail address typed into the e-mail input of a saved
   document. *)
C24_Witness ==
    /\ lastOp.name = "setField" /\ lastOp.field = "email"
    /\ lastOp.value = "not an address"
    /\ resumeData.email = "not an address"
    /\ resumeData.resume_id = Ids[1]
    /\ Len(resumeData.projects) = 1

----------------------------------------------------------------------------
(* Overlapping actions (Spec) *)

(* C25: no two create requests are in flight at the same time: a Create
   overlapping an Improve in its Creating phase, or two overlapping Creates,
   never give concurrent create requests. *)
C25_NoConcurrentCreates ==
    Cardinality({i \in DOMAIN network : network[i].op = "create"}) <= 1

(* A handleImprove invocation has started and not returned. *)
ImproveOutstanding == \E i \in Calls : IsImprove(calls[i]) /\ ~calls[i].done

(* C26: isImproving is true exactly when an Improve action has started and
   not yet finished; it is false initially, and nothing but the start and
   the end of an Improve changes it. *)
C26_FlagTracksImprove ==
    /\ [](isImproving <=> ImproveOutstanding)
    /\ [][isImproving' # isImproving =>
             \/ /\ Len(calls') = Len(calls) + 1
                /\ IsImprove(calls'[Len(calls')])
             \/ \E i \in Calls : IsImprove(calls[i]) /\ Returns(i)]_vars

(* A Create Resume clicked while an Improve was outstanding has failed and
   returned; the Improve is still outstanding and the flag still set. *)
C26_Witness ==
    /\ isImproving
    /\ \E i, j \in Calls :
           /\ i < j
           /\ IsImprove(calls[i]) /\ ~calls[i].done
           /\ IsSubmit(calls[j]) /\ calls[j].done /\ calls[j].failed

(* C27: within one Improve, the create request and the improve request both
   carry the document as it was when Improve was invoked: edits made while
   the create request is in flight are in neither request body. *)
C27_RequestsCarryDocumentAtInvocation ==
    /\ [][\A i \in DOMAIN frames' :
              i \notin DOMAIN frames =>
                  /\ frames'[i].resumeData = resumeData
                  /\ network'[i].body = resumeData]_vars
    /\ [](\A i \in DOMAIN network :
              IsImprove(calls[i]) => network[i].body = frames[i].resumeData)

(* The improve request of an Improve that first created the resume is in
   flight; a project added since the click is in the document and not in
   the request body. *)
C27_Witness ==
    \E i \in DOMAIN network :
        /\ IsImprove(calls[i]) /\ calls[i].creates = 1
        /\ network[i].op = "improve"
        /\ network[i].body.projects = <<>>
        /\ Len(resumeData.projects) = 1

(* The create request of the invocation i returned a response without
   resume_id in this step. *)
CreatedNothing(i) ==
    /\ Returns(i) /\ ~calls'[i].failed
    /\ calls'[i].creates = 1 /\ calls'[i].createdId = ""

(* C28: when a create request completes with a response that has no
   resume_id, the Improve action issues no improve request, leaves the
   document unchanged and returns to Idle, and the Create action leaves the
   document unchanged; the identity stays empty. *)
C28_CreateWithoutIdChangesNothing ==
    [][\A i \in Calls :
          CreatedNothing(i) =>
              /\ resumeData' = resumeData
              /\ resumeData.resume_id = "" => resumeData'.resume_id = ""
              /\ IsImprove(calls[i]) =>
                     /\ calls'[i].improveArgs = <<>>
                     /\ i \notin DOMAIN network'
                     /\ ~isImproving']_vars

(* An Improve and a Create Resume have both returned from a create response
   without resume_id; the identity is empty and the flag clear. *)
C28_Witness ==
    /\ resumeData.resume_id = ""
    /\ ~isImproving
    /\ \E i, j \in Calls :
           /\ IsImprove(calls[i]) /\ IsSubmit(calls[j])
           /\ \A k \in {i, j} :
                  /\ calls[k].done /\ ~calls[k].failed
                  /\ calls[k].creates = 1 /\ calls[k].createdId = ""
           /\ calls[i].improveArgs = <<>>

----------------------------------------------------------------------------
(* The display form of the tokenized lists (SpecTok) *)

(* C29: tokenizing is idempotent through the display form: for every text
   typed, tokenizing the stored list joined with ", " gives the same list
   as tokenizing the text; every stored token is non-empty, has no leading
   or trailing whitespace and holds no comma. *)
C29_TokenizeIdempotentThroughDisplay ==
    /\ lastOp.name = "retokenize" =>
           /\ resumeData[lastOp.field] = lastOp.doc[lastOp.field]
           /\ resumeData[lastOp.field] = TokensAfter(lastOp.typed, 0)
    /\ lastOp.name \in {"setTokenList", "retokenize"} =>
           \A k \in 1..Len(resumeData[lastOp.field]) :
               LET token == resumeData[lastOp.field][k]
               IN  /\ token # <<>>
                   /\ token[1] \notin Whitespace
                   /\ token[Len(token)] \notin Whitespace
                   /\ \A c \in 1..Len(token) : token[c] # ","

(* The example text was typed, shown back as "A, B, C" and reported again:
   the list is the same. *)
C29_Witness ==
    /\ lastOp.name = "retokenize" /\ lastOp.field = "skills"
    /\ lastOp.typed = ExampleText
    /\ lastOp.text = <<"A", ",", " ", "B", ",", " ", "C">>
    /\ resumeData.skills = << <<"A">>, <<"B">>, <<"C">> >>

----------------------------------------------------------------------------
(* Loading and error of the templates page (SpecTemplates) *)

(* C30: loading is true from the start until the one request completes and
   false afterwards on every path; after completion the error message is
   non-null exactly when the list shown is the seven-entry fallback
   catalog, and it is null after any successful response. *)
C30_LoadingAndErrorFollowRequest ==
    /\ ~Loaded => loading
    /\ Loaded =>
           /\ ~loading
           /\ error # null <=> (Len(templates) = 7 /\ ShowsFallback)
           /\ fetched.kind = "returned" => error = null

====
